---- MODULE Spec2Model ----
(***************************************************************************)
(* Model of the EVOS agent execution engine: the ReAct loop of             *)
(* src/src/ai/agent.py (Agent.run, Agent._parse_response, Agent.stop) and  *)
(* the engine router of src/src/ai/llm_engine.py (LLMEngine).              *)
(*                                                                         *)
(* The program is a single-threaded asyncio application: code between two  *)
(* awaits runs atomically.  Each action below is one such block, from the  *)
(* return of one await to the suspension at the next.                      *)
(***************************************************************************)
EXTENDS Integers, Sequences, FiniteSets, TLC

(***************************************************************************)
(* Bounds of the model.                                                    *)
(***************************************************************************)
MaxBudget == 3          \* largest max_steps an Agent is constructed with
MaxTextLen == 4         \* longest reply, in tokens, handed to the parser alone

\* Identifiers of the coroutines of Agent.run; 0 stands for "no task".
RunIds == {1, 2}

(***************************************************************************)
(* JSON values as Python sees them after json.loads.  A value is null, a   *)
(* string, or a mapping; of a mapping the model keeps its key set, the     *)
(* text stored under "message" and the keys whose value is null.  Python's *)
(* None is the JSON null.                                                  *)
(***************************************************************************)
None == [kind |-> "null", s |-> "", keys |-> {}, nulls |-> {}]
JStr(x) == [kind |-> "str", s |-> x, keys |-> {}, nulls |-> {}]
JMap(ks, m) == [kind |-> "map", s |-> m, keys |-> ks, nulls |-> {}]
\* {"message": null}
NullMsgMap == [kind |-> "map", s |-> "", keys |-> {"message"}, nulls |-> {"message"}]
EmptyMap == JMap({}, "")
\* A value json.loads cannot build: arrays nested beyond the interpreter's
\* recursion limit, or an integer literal beyond the int digit limit.
JDeep == [kind |-> "deep", s |-> "", keys |-> {}, nulls |-> {}]

\* Python truthiness of a value: None, "" and {} are falsy.
Truthy(v) ==
    CASE v.kind = "null" -> FALSE
      [] v.kind = "str" -> v.s # ""
      [] OTHER -> v.keys # {}

(***************************************************************************)
(* Reply text.  A reply is a sequence of tokens: an opening brace, a       *)
(* closing brace, a run of prose, or one "key": value member of an object. *)
(***************************************************************************)
LBrace == [t |-> "{", k |-> "", v |-> None]
RBrace == [t |-> "}", k |-> "", v |-> None]
Prose == [t |-> "txt", k |-> "", v |-> None]
Member(key, val) == [t |-> "member", k |-> key, v |-> val]

AnswerUser == JStr("answer_user")
Click == JStr("click")
MsgMap == JMap({"message"}, "Clicked login")
SelMap == JMap({"selector"}, "")

\* The replies the provider is allowed to give in the model.
ReplyClick ==
    <<LBrace, Member("thought", JStr("locate button")), Member("action", Click),
      Member("action_input", SelMap), RBrace>>
ReplyAnswer ==
    <<Prose, LBrace, Member("thought", JStr("done")), Member("action", AnswerUser),
      Member("action_input", MsgMap), RBrace, Prose>>
ReplyAnswerNull ==
    <<LBrace, Member("action", AnswerUser), Member("action_input", None), RBrace>>
ReplyAnswerNoInput == <<LBrace, Member("action", AnswerUser), RBrace>>
ReplyProse == <<Prose>>
ReplyTwoObjects ==
    <<LBrace, Member("action", Click), RBrace, Prose,
      LBrace, Member("action", AnswerUser), Member("action_input", MsgMap), RBrace>>
ReplyReversed == <<RBrace, Prose, LBrace>>
ReplyEmptyAction == <<LBrace, Member("action", JStr("")), RBrace>>
ReplyAnswerNullMessage ==
    <<LBrace, Member("action", AnswerUser), Member("action_input", NullMsgMap), RBrace>>
ReplyClickNull ==
    <<LBrace, Member("action", Click), Member("action_input", None), RBrace>>

\* Every reply of the model, and the replies the provider gives the loop.
AllReplies ==
    {ReplyClick, ReplyAnswer, ReplyAnswerNull, ReplyAnswerNoInput, ReplyProse,
     ReplyTwoObjects, ReplyReversed, ReplyEmptyAction, ReplyClickNull}

Replies ==
    {ReplyClick, ReplyAnswer, ReplyAnswerNull, ReplyAnswerNoInput, ReplyProse,
     ReplyEmptyAction, ReplyClickNull}

(***************************************************************************)
(* str.find / str.rfind on a token sequence, 0-based, -1 when absent.      *)
(***************************************************************************)
Positions(response, tok) == {i \in 1..Len(response) : response[i].t = tok}

Min(S) == CHOOSE x \in S : \A y \in S : x <= y
Max(S) == CHOOSE x \in S : \A y \in S : x >= y

Find(response, tok) ==
    IF Positions(response, tok) = {} THEN -1 ELSE Min(Positions(response, tok)) - 1

RFind(response, tok) ==
    IF Positions(response, tok) = {} THEN -1 ELSE Max(Positions(response, tok)) - 1

\* response[start:end] for 0 <= start < end <= len(response)
Slice(response, start, end) == SubSeq(response, start + 1, end)

(***************************************************************************)
(* json.loads on a span that begins with an opening brace: it yields a     *)
(* dict exactly when the span is one object (members between one pair of   *)
(* braces), and raises JSONDecodeError otherwise.  A repeated key keeps    *)
(* its last value.  The decoder reads left to right: when it meets a value *)
(* it cannot build before any malformed text, it raises RecursionError (or *)
(* ValueError), neither of which is a JSONDecodeError.                     *)
(***************************************************************************)
IsObject(span) ==
    /\ Len(span) >= 2
    /\ span[1].t = "{"
    /\ span[Len(span)].t = "}"
    /\ \A i \in 2..(Len(span) - 1) : span[i].t = "member"

LoadsRaises(span) ==
    \E i \in 2..Len(span) :
        /\ span[i].t = "member"
        /\ span[i].v = JDeep
        /\ \A j \in 2..(i - 1) : span[j].t = "member"

JsonLoads(span) ==
    IF LoadsRaises(span)
    THEN [ok |-> FALSE, raised |-> TRUE, data |-> <<>>]
    ELSE IF IsObject(span)
    THEN [ok |-> TRUE, raised |-> FALSE,
          data |-> [key \in {span[i].k : i \in 2..(Len(span) - 1)} |->
                      span[Max({i \in 2..(Len(span) - 1) : span[i].k = key})].v]]
    ELSE [ok |-> FALSE, raised |-> FALSE, data |-> <<>>]

\* dict.get(key, default)
DictGet(data, key, default) == IF key \in DOMAIN data THEN data[key] ELSE default

(***************************************************************************)
(* AgentStep and Agent._parse_response.  A thought is either a value read  *)
(* from the JSON object or the raw reply text.                             *)
(***************************************************************************)
\* AgentStep.observation: None, json.dumps of the tool result, or the error
\* string f"Error executing {action}: {e}".
ObsNone == [kind |-> "none", action |-> None]
ObsResult == [kind |-> "result", action |-> None]
ObsError(action) == [kind |-> "error", action |-> action]

ParsedThought(v) == [raw |-> FALSE, v |-> v, text |-> <<>>]
RawThought(response) == [raw |-> TRUE, v |-> None, text |-> response]

\* A slip: steps are numbered from 0.
AgentStepFromZero(step_num, thought, action, action_input) ==
    [step_number |-> step_num - 1, thought |-> thought, action |-> action,
     action_input |-> action_input, observation |-> ObsNone]

AgentStep(step_num, thought, action, action_input) ==
    [step_number |-> step_num, thought |-> thought, action |-> action,
     action_input |-> action_input, observation |-> ObsNone]

\* Lines 205-210: json.loads raises something the except clause of line 217
\* does not catch, and _parse_response returns no step.
ParseRaises(response) ==
    LET start == Find(response, "{")
        end == RFind(response, "}") + 1
    IN  /\ start >= 0
        /\ end > start
        /\ JsonLoads(Slice(response, start, end)).raised

\* The step _parse_response returns, when it returns.
ParseResponse(response, step_num) ==
    LET start == Find(response, "{")
        end == RFind(response, "}") + 1
    IN  IF start >= 0 /\ end > start
        THEN LET loaded == JsonLoads(Slice(response, start, end))
             IN  IF loaded.ok
                 THEN AgentStep(step_num,
                                ParsedThought(DictGet(loaded.data, "thought", JStr(""))),
                                DictGet(loaded.data, "action", None),
                                DictGet(loaded.data, "action_input", EmptyMap))
                 ELSE AgentStep(step_num, RawThought(response), None, None)
        ELSE AgentStep(step_num, RawThought(response), None, None)

(***************************************************************************)
(* State.                                                                  *)
(***************************************************************************)
VARIABLES
    max_steps,      \* Agent.max_steps
    tool_executor,  \* Agent.tool_executor: "none" or "set"
    current_task,   \* Agent.current_task: 0 (None) or the run whose Task it is
    task,           \* per run: the AgentTask object created by that run
    pc,             \* per run: where the coroutine of Agent.run stands
    messages,       \* per run: the local list `messages` (the transcript)
    step_num,       \* per run: the loop variable step_num
    on_step,        \* per run: the on_step argument, "none" or "set"
    run_result,     \* per run: the Task as it was when run returned it
    exc,            \* per run: the exception that left run, "none" if none did
    gen_log,        \* per run: the prompts passed to llm_engine.generate so far
    reply_log,      \* per run: the replies llm_engine.generate returned so far
    tool_log,       \* per run: the calls made to the tool executor so far
    cb_log,         \* per run: the calls made to on_step so far
    stopped_at      \* per run: provider calls issued when stop() first hit the
                    \*          running task, 0 if it never did

agent_vars ==
    <<max_steps, tool_executor, current_task, task, pc, messages, step_num,
      on_step, run_result, exc, gen_log, reply_log, tool_log, cb_log, stopped_at>>

(***************************************************************************)
(* State of the engine router (llm_engine.py, gemini_engine.py) and of the *)
(* settings it reads (config.py).                                          *)
(***************************************************************************)
VARIABLES
    settings,       \* Settings: ai_mode, default_model, gemini_api_key
    mode,           \* LLMEngine.mode
    active_engine,  \* LLMEngine.active_engine: "ollama" or "gemini"
    model,          \* LLMEngine.model
    model_available,\* LLMEngine._model_available
    ollama,         \* OllamaEngine: model, _model_available
    gemini,         \* GeminiEngine: _model_available, model (the client object)
    rcall           \* the router call in progress, and the last one's outcome

router_vars ==
    <<settings, mode, active_engine, model, model_available, ollama, gemini, rcall>>

\* The requests the adapters have received through the router's delegate
\* methods, in order: the operation, the adapter that was called, the run
\* that asked (0 for a caller outside Agent.run) and the adapter's
\* _model_available flag at that moment.
VARIABLES requests

\* What the calls of generate_with_tools made from outside Agent.run have
\* returned: the adapter called, the reply its generate gave, the result.
VARIABLES tool_results

\* AgentRequest.max_steps of the /agent/execute request being served
\* (server.py line 39); 0 when the run was not started by such a request.
VARIABLES request_max_steps

vars == <<agent_vars, router_vars, requests, tool_results, request_max_steps>>

MaxStepsReason == JStr("Max steps reached without completing task")
CancelReason == JStr("Task cancelled by user")
DefaultResult == JStr("Task completed")

\* AgentTask; before the run starts there is no object (pc = "idle") and the
\* slot holds the dataclass defaults.
DefaultTask == [steps |-> <<>>, state |-> "idle", result |-> None, error |-> None]
NewTask == [DefaultTask EXCEPT !.state = "thinking"]

\* Entries of `messages`.
NoStep == AgentStep(0, ParsedThought(None), None, None)
UserTask == [kind |-> "task", step |-> NoStep]
Corrective == [kind |-> "corrective", step |-> NoStep]
StepRecord(step) == [kind |-> "step", step |-> step]

\* Positions of the coroutine.  "loop" is the for statement of line 147,
\* reached from inside the coroutine with no await: nothing else runs there.
\* "generate", "on_step" and "tool" are the three awaits.
Running(r) == pc[r] \in {"loop", "generate", "on_step", "tool"}
Suspended(r) == pc[r] \in {"generate", "on_step", "tool"}
Finished(r) == pc[r] \in {"returned", "raised"}
NoneInLoop == \A r \in RunIds : pc[r] # "loop"

AgentInit ==
    /\ max_steps \in 1..MaxBudget
    /\ tool_executor = "none"
    /\ current_task = 0
    /\ task = [r \in RunIds |-> DefaultTask]
    /\ pc = [r \in RunIds |-> "idle"]
    /\ messages = [r \in RunIds |-> <<>>]
    /\ step_num = [r \in RunIds |-> 0]
    /\ on_step = [r \in RunIds |-> "none"]
    /\ run_result = [r \in RunIds |-> DefaultTask]
    /\ exc = [r \in RunIds |-> "none"]
    /\ gen_log = [r \in RunIds |-> <<>>]
    /\ reply_log = [r \in RunIds |-> <<>>]
    /\ tool_log = [r \in RunIds |-> <<>>]
    /\ cb_log = [r \in RunIds |-> <<>>]
    /\ stopped_at = [r \in RunIds |-> 0]
    /\ requests = <<>>
    /\ tool_results = <<>>
    /\ request_max_steps = 0


(***************************************************************************)
(* The engine router.                                                      *)
(***************************************************************************)
\* Model identifiers: a name and a tag, "name:tag".
ModelId(name, tag) == [name |-> name, tag |-> tag]
NoModel == ModelId("None", "")
\* config.py lines 16-17 and gemini_engine.py line 19
Llama3b == ModelId("llama3.2", "3b")
FallbackModel == ModelId("llama3.2", "1b")
GeminiModelName == ModelId("gemini-2.0-flash-exp", "")
Mistral == ModelId("mistral", "7b")
Requested == ModelId("requested", "")

\* What GET /api/tags can answer: the daemon is down (an exception or a
\* status other than 200), or a list of installed models.
Installable == {Llama3b, FallbackModel, Mistral}
Down == [up |-> FALSE, models |-> {}]
OllamaAnswers == {Down} \cup {[up |-> TRUE, models |-> S] : S \in SUBSET Installable}

\* What building the Gemini client does, given an API key.
GeminiAnswers == {"ok", "raises"}

\* The values a mode request or the configured mode can carry.
ModeNames == {"online", "offline", "hybrid"}
KnownModes == {"online", "offline"}

\* LLMEngine.__init__ (lines 121-127) over OllamaEngine.__init__ (15-19) and
\* GeminiEngine.__init__ (18-22), for the settings read at import.
NewOllama == [model |-> settings.default_model, available |-> FALSE]
NewGemini == [available |-> FALSE, model |-> "None"]
\* The router call in progress or last returned: the operation, its argument,
\* where it stands, what the adapter's initialize returned ("none" before it
\* has), what the call returned, and <<mode, active_engine, model>> at the call;
\* what gemini.initialize returned inside an initialize call, the
\* operation and argument of the call that returned just before this one,
\* the adapters whose initialize this call has run so far, and the models
\* GET /api/tags listed for this call.
NoCall == [op |-> "none", arg |-> "", at |-> "idle", probe |-> "none",
           ret |-> FALSE, before |-> <<"", "", NoModel>>, remote |-> "none",
           prev |-> <<"none", "">>, probed |-> {}, models |-> {}]

\* A slip: no adapter is made active at construction unless the configured
\* mode is "offline".
RouterConstructedInactive ==
    /\ mode = settings.ai_mode
    /\ active_engine = IF settings.ai_mode = "offline" THEN "ollama" ELSE "none"
    /\ model = IF settings.ai_mode = "offline" THEN settings.default_model ELSE NoModel
    /\ model_available = FALSE
    /\ ollama = NewOllama
    /\ gemini = NewGemini
    /\ rcall = NoCall

RouterConstructed ==
    /\ mode = settings.ai_mode
    /\ active_engine = IF settings.ai_mode = "offline" THEN "ollama" ELSE "gemini"
    /\ model = IF settings.ai_mode = "offline" THEN settings.default_model ELSE NoModel
    /\ model_available = FALSE
    /\ ollama = NewOllama
    /\ gemini = NewGemini
    /\ rcall = NoCall

\* config.py lines 9-21 with the defaults of lines 16, 20 and 21.
DefaultSettings == [ai_mode |-> "online", default_model |-> Llama3b, api_key |-> FALSE]

\* The settings an installation can start with (EVOS_* environment).
StartSettings ==
    [ai_mode : {"online", "offline"}, default_model : {Llama3b, Mistral},
     api_key : BOOLEAN]

\* The router as the import of llm_engine leaves it; the agent is idle.
RouterInit ==
    /\ AgentInit
    /\ settings \in StartSettings
    /\ RouterConstructed

Init ==
    /\ AgentInit
    /\ settings = DefaultSettings
    /\ RouterConstructed

\* OllamaEngine.initialize, lines 23-48, on the answer of GET /api/tags:
\* the engine afterwards and the returned boolean.
OllamaInitialize(o, answer) ==
    IF ~answer.up
    THEN [engine |-> o, ret |-> FALSE]
    ELSE IF o.model \in answer.models
            \/ o.model.name \in {m.name : m \in answer.models}
    THEN [engine |-> [o EXCEPT !.available = TRUE], ret |-> TRUE]
    ELSE IF FallbackModel \in answer.models
    THEN [engine |-> [o EXCEPT !.model = FallbackModel, !.available = TRUE],
          ret |-> TRUE]
    ELSE [engine |-> o, ret |-> FALSE]

\* GeminiEngine.initialize, lines 24-41.
GeminiInitialize(g, answer) ==
    IF ~settings.api_key
    THEN [engine |-> g, ret |-> FALSE]
    ELSE IF answer = "ok"
    THEN [engine |-> [g EXCEPT !.model = "client", !.available = TRUE], ret |-> TRUE]
    ELSE [engine |-> g, ret |-> FALSE]

RouterState == <<mode, active_engine, model>>

\* The call that returned last, seen from the call now in progress.
PrevCall == IF rcall.at = "returned" THEN <<rcall.op, rcall.arg>> ELSE rcall.prev

\* The call is suspended at the Ollama probe.
AtProbe(op, arg, before) ==
    [op |-> op, arg |-> arg, at |-> "probe", probe |-> "none", ret |-> FALSE,
     before |-> before, remote |-> "none", prev |-> PrevCall, probed |-> {},
     models |-> {}]

\* The call returns to its caller.
Return(op, arg, probe, value, before) ==
    [op |-> op, arg |-> arg, at |-> "returned", probe |-> probe, ret |-> value,
     before |-> before, remote |-> "none", prev |-> PrevCall,
     probed |-> IF rcall.at = "probe" THEN rcall.probed \cup {"ollama"} ELSE {},
     models |-> {}]

Outcome(ret) == IF ret THEN "ok" ELSE "failed"

\* A slip: the remote adapter is swapped in but the model identifier is left
\* as it was.
SwitchOnlineKeepsModel(target, answer) ==
    LET probe == GeminiInitialize(gemini, answer)
    IN  /\ gemini' = probe.engine
        /\ IF probe.ret
           THEN /\ mode' = "online"
                /\ active_engine' = "gemini"
                /\ UNCHANGED model
           ELSE UNCHANGED <<mode, active_engine, model>>
        /\ rcall' = [Return("switch_mode", target, Outcome(probe.ret), probe.ret,
                          RouterState) EXCEPT !.probed = {"gemini"}]

\* LLMEngine.switch_mode, lines 159-165: GeminiEngine.initialize has no
\* await, so the whole branch is one block.
SwitchOnline(target, answer) ==
    LET probe == GeminiInitialize(gemini, answer)
    IN  /\ gemini' = probe.engine
        /\ IF probe.ret
           THEN /\ mode' = "online"
                /\ active_engine' = "gemini"
                /\ model' = GeminiModelName
           ELSE UNCHANGED <<mode, active_engine, model>>
        /\ rcall' = [Return("switch_mode", target, Outcome(probe.ret), probe.ret,
                          RouterState) EXCEPT !.probed = {"gemini"}]

\* server.py line 347, after switch_mode has returned.
SetAiMode(target) == settings' = [settings EXCEPT !.ai_mode = target]

\* LLMEngine.switch_mode, lines 156-175, up to its first await or its return,
\* called by set_ai_mode (server.py lines 343-353).
SwitchModeCall(target, answer) ==
    /\ NoneInLoop
    /\ rcall.at # "probe"
    /\ IF target = "online"
       THEN /\ SwitchOnline(target, answer)
            /\ SetAiMode(target)
            /\ UNCHANGED ollama
       ELSE IF target = "offline"
       THEN /\ rcall' = AtProbe("switch_mode", target, RouterState)
            /\ UNCHANGED <<settings, mode, active_engine, model, ollama, gemini>>
       ELSE /\ rcall' = Return("switch_mode", target, "none", FALSE, RouterState)
            /\ SetAiMode(target)
            /\ UNCHANGED <<mode, active_engine, model, ollama, gemini>>
    /\ UNCHANGED <<model_available, agent_vars, requests, tool_results, request_max_steps>>

\* A slip: the adapter is swapped in whether or not the probe succeeded.
SwitchOfflineAlways(o, ret) ==
    /\ mode' = "offline"
    /\ active_engine' = "ollama"
    /\ model' = o.model

\* A slip: the local adapter is swapped in but the mode is left as it was.
SwitchOfflineKeepsMode(o, ret) ==
    IF ret
    THEN /\ active_engine' = "ollama"
         /\ model' = o.model
         /\ UNCHANGED mode
    ELSE UNCHANGED <<mode, active_engine, model>>

\* LLMEngine.switch_mode, lines 168-173, after ollama.initialize returned.
SwitchOffline(o, ret) ==
    IF ret
    THEN /\ mode' = "offline"
         /\ active_engine' = "ollama"
         /\ model' = o.model
    ELSE UNCHANGED <<mode, active_engine, model>>

\* The Ollama probe of switch_mode("offline") answers.
SwitchModeProbed(answer) ==
    /\ NoneInLoop
    /\ rcall.op = "switch_mode"
    /\ rcall.at = "probe"
    /\ LET probe == OllamaInitialize(ollama, answer)
       IN  /\ ollama' = probe.engine
           /\ SwitchOffline(probe.engine, probe.ret)
           /\ rcall' = [Return("switch_mode", rcall.arg, Outcome(probe.ret),
                                probe.ret, rcall.before)
                              EXCEPT !.models = answer.models]
    /\ SetAiMode(rcall.arg)
    /\ UNCHANGED <<model_available, gemini, agent_vars, requests, tool_results, request_max_steps>>

\* A slip: the return of line 143 is missing, so a successful remote start
\* falls through to the offline initialisation.
InitializeCallFallsThrough(caller, answer) ==
    /\ NoneInLoop
    /\ rcall.at # "probe"
    /\ LET probe == GeminiInitialize(gemini, answer)
           online == settings.ai_mode = "online"
       IN  /\ mode' = IF online /\ ~probe.ret THEN "offline" ELSE settings.ai_mode
           /\ gemini' = IF online THEN probe.engine ELSE gemini
           /\ active_engine' = "ollama"
           /\ model' = IF online /\ probe.ret THEN GeminiModelName
                       ELSE IF caller = "switch_model" THEN Requested ELSE model
           /\ model_available' = IF online /\ probe.ret THEN TRUE ELSE model_available
           /\ rcall' = [AtProbe("initialize", caller, RouterState)
                         EXCEPT !.remote = IF online THEN Outcome(probe.ret) ELSE "none",
                                !.probed = IF online THEN {"gemini"} ELSE {}]
    /\ UNCHANGED <<settings, ollama, agent_vars, requests, tool_results, request_max_steps>>

\* LLMEngine.initialize, lines 129-151, up to the await of the Ollama probe
\* or the return of line 143.  switch_model (server.py line 359) first
\* stores the requested name in LLMEngine.model.
InitializeCall(caller, answer) ==
    /\ NoneInLoop
    /\ rcall.at # "probe"
    /\ LET probe == GeminiInitialize(gemini, answer)
       IN  IF settings.ai_mode = "online" /\ probe.ret
           THEN /\ mode' = "online"
                /\ gemini' = probe.engine
                /\ active_engine' = "gemini"
                /\ model' = GeminiModelName
                /\ model_available' = TRUE
                /\ rcall' = [Return("initialize", caller, "ok", TRUE, RouterState)
                              EXCEPT !.remote = "ok", !.probed = {"gemini"}]
           ELSE /\ mode' = IF settings.ai_mode = "online" THEN "offline"
                           ELSE settings.ai_mode
                /\ gemini' = IF settings.ai_mode = "online" THEN probe.engine ELSE gemini
                /\ active_engine' = "ollama"
                /\ model' = IF caller = "switch_model" THEN Requested ELSE model
                /\ rcall' = [AtProbe("initialize", caller, RouterState)
                              EXCEPT !.remote = IF settings.ai_mode = "online"
                                                THEN "failed" ELSE "none",
                                     !.probed = IF settings.ai_mode = "online"
                                                THEN {"gemini"} ELSE {}]
                /\ UNCHANGED model_available
    /\ UNCHANGED <<settings, ollama, agent_vars, requests, tool_results, request_max_steps>>

\* A slip: the router's availability flag is not written after the probe.
InitializeProbedKeepsFlag(answer) ==
    /\ NoneInLoop
    /\ rcall.op = "initialize"
    /\ rcall.at = "probe"
    /\ LET probe == OllamaInitialize(ollama, answer)
       IN  /\ ollama' = probe.engine
           /\ model' = probe.engine.model
           /\ rcall' = [Return("initialize", rcall.arg, Outcome(probe.ret),
                                probe.ret, rcall.before)
                              EXCEPT !.remote = rcall.remote,
                                     !.models = answer.models]
    /\ UNCHANGED <<settings, mode, active_engine, gemini, agent_vars, requests, tool_results, request_max_steps, model_available>>

\* LLMEngine.initialize, lines 151-154: the Ollama probe answers.
InitializeProbed(answer) ==
    /\ NoneInLoop
    /\ rcall.op = "initialize"
    /\ rcall.at = "probe"
    /\ LET probe == OllamaInitialize(ollama, answer)
       IN  /\ ollama' = probe.engine
           /\ model' = probe.engine.model
           /\ model_available' = probe.ret
           /\ rcall' = [Return("initialize", rcall.arg, Outcome(probe.ret),
                                probe.ret, rcall.before)
                              EXCEPT !.remote = rcall.remote,
                                     !.models = answer.models]
    /\ UNCHANGED <<settings, mode, active_engine, gemini, agent_vars, requests, tool_results, request_max_steps>>

(***************************************************************************)
(* The router alone: the startup initialize of lifespan (server.py line    *)
(* 75), then mode requests and model switches, one call at a time.         *)
(***************************************************************************)
RouterNext ==
    \/ \E caller \in {"lifespan", "switch_model"} : \E answer \in GeminiAnswers :
           InitializeCall(caller, answer)
    \/ \E answer \in OllamaAnswers : InitializeProbed(answer)
    \/ \E target \in ModeNames : \E answer \in GeminiAnswers :
           SwitchModeCall(target, answer)
    \/ \E answer \in OllamaAnswers : SwitchModeProbed(answer)

SpecRouter == RouterInit /\ [][RouterNext]_vars

(***************************************************************************)
(* The delegate methods of the router, llm_engine.py lines 177-188, and    *)
(* the head of the adapters' generate (llm_engine.py lines 50-51,          *)
(* gemini_engine.py lines 52-53).                                          *)
(***************************************************************************)
\* A slip: the adapter that served the first request is kept for all later
\* ones.
DelegateFirst == IF requests = <<>> THEN active_engine ELSE requests[1].adapter

\* A slip: every operation goes to the local adapter.
DelegateLocal == "ollama"

\* self.active_engine, read when the operation is called.
Delegate == active_engine

Available(adapter) == IF adapter = "ollama" THEN ollama.available ELSE gemini.available

AdapterRequest(op, r) ==
    [op |-> op, adapter |-> Delegate, run |-> r, available |-> Available(Delegate)]

(***************************************************************************)
(* Agent.run, block by block.                                              *)
(***************************************************************************)

\* Lines 193-195: after the loop.
AfterLoop(t) ==
    IF t.state # "completed"
    THEN [t EXCEPT !.state = "error", !.error = MaxStepsReason]
    ELSE t

\* A slip: run finishes and returns self.current_task, not its own task.
EndRunCurrent(r, t) ==
    LET mine == [task EXCEPT ![r] = t]
    IN  /\ task' = [mine EXCEPT ![current_task] = AfterLoop(mine[current_task])]
        /\ run_result' = [run_result EXCEPT ![r] = AfterLoop(mine[current_task])]
        /\ pc' = [pc EXCEPT ![r] = "returned"]
        /\ UNCHANGED exc

\* Lines 193-197: the loop is over, run returns the task.
EndRun(r, t) ==
    /\ task' = [task EXCEPT ![r] = AfterLoop(t)]
    /\ run_result' = [run_result EXCEPT ![r] = AfterLoop(t)]
    /\ pc' = [pc EXCEPT ![r] = "returned"]
    /\ UNCHANGED exc

\* An exception leaves run: the task keeps what was assigned before it.
Escape(r, t, e) ==
    /\ task' = [task EXCEPT ![r] = t]
    /\ pc' = [pc EXCEPT ![r] = "raised"]
    /\ exc' = [exc EXCEPT ![r] = e]
    /\ UNCHANGED run_result

\* The end of the loop body: back to the for statement.
EndIteration(r, t) ==
    /\ task' = [task EXCEPT ![r] = t]
    /\ pc' = [pc EXCEPT ![r] = "loop"]
    /\ UNCHANGED <<run_result, exc>>

\* Line 147: does range(1, max_steps + 1) yield another step number?
HasNext(k) == k < max_steps

\* Line 171: step.action_input.get("message", "Task completed")
AnswerMessage(action_input) ==
    IF "message" \in action_input.nulls THEN None
    ELSE IF "message" \in action_input.keys THEN JStr(action_input.s)
    ELSE DefaultResult

\* Line 180: step.action_input or {}
OrEmpty(action_input) == IF Truthy(action_input) THEN action_input ELSE EmptyMap

\* Line 176: is the action executed?
Executes(step) == Truthy(step.action) /\ tool_executor = "set"

\* A slip: the corrective entry overwrites the last entry of the transcript.
WithCorrectiveRewrites(step, msgs) ==
    IF step.action = None THEN [msgs EXCEPT ![Len(msgs)] = Corrective] ELSE msgs

\* Lines 190-191: the corrective entry.
WithCorrective(step, msgs) ==
    IF step.action = None THEN Append(msgs, Corrective) ELSE msgs

\* Lines 168-191 up to the next await: the step has been appended (and
\* reported to on_step); t is the task with that step as its last one.
HandleStep(r, t) ==
    LET step == t.steps[Len(t.steps)]
    IN  IF step.action = AnswerUser
        THEN IF step.action_input.kind = "map"
             THEN /\ EndRun(r, [t EXCEPT !.state = "completed",
                                         !.result = AnswerMessage(step.action_input)])
                  /\ UNCHANGED <<messages, tool_log>>
             ELSE \* AttributeError: None and str have no attribute 'get'
                  /\ Escape(r, [t EXCEPT !.state = "completed"], "AttributeError")
                  /\ UNCHANGED <<messages, tool_log>>
        ELSE IF Executes(step)
        THEN /\ task' = [task EXCEPT ![r] = [t EXCEPT !.state = "acting"]]
             /\ tool_log' = [tool_log EXCEPT ![r] =
                    Append(@, [step |-> step.step_number, action |-> step.action,
                               params |-> OrEmpty(step.action_input),
                               outcome |-> "pending"])]
             /\ pc' = [pc EXCEPT ![r] = "tool"]
             /\ UNCHANGED <<messages, run_result, exc>>
        ELSE /\ EndIteration(r, t)
             /\ messages' = [messages EXCEPT ![r] = WithCorrective(step, @)]
             /\ UNCHANGED tool_log

\* A slip: current_task is set only when no run has set it before.
RunStartKeepsCurrent(r, cb) ==
    /\ NoneInLoop
    /\ pc[r] = "idle"
    /\ current_task' = IF current_task = 0 THEN r ELSE current_task
    /\ on_step' = [on_step EXCEPT ![r] = cb]
    /\ task' = [task EXCEPT ![r] = NewTask]
    /\ messages' = [messages EXCEPT ![r] = <<UserTask>>]
    /\ pc' = [pc EXCEPT ![r] = "loop"]
    /\ UNCHANGED <<router_vars, requests, tool_results, request_max_steps>>
    /\ UNCHANGED <<max_steps, tool_executor, step_num, run_result, exc, gen_log,
                   reply_log, tool_log, cb_log, stopped_at>>

\* Lines 119-145: run is called; the task is created and made current.
RunStart(r, cb) ==
    /\ NoneInLoop
    /\ pc[r] = "idle"
    /\ current_task' = r
    /\ on_step' = [on_step EXCEPT ![r] = cb]
    /\ task' = [task EXCEPT ![r] = NewTask]
    /\ messages' = [messages EXCEPT ![r] = <<UserTask>>]
    /\ pc' = [pc EXCEPT ![r] = "loop"]
    /\ UNCHANGED <<router_vars, requests, tool_results, request_max_steps>>
    /\ UNCHANGED <<max_steps, tool_executor, step_num, run_result, exc, gen_log,
                   reply_log, tool_log, cb_log, stopped_at>>

\* Lines 147-159, or 193-197 when the range is exhausted.
Loop(r) ==
    /\ pc[r] = "loop"
    /\ IF HasNext(step_num[r])
       THEN /\ task' = [task EXCEPT ![r].state = "thinking"]
            /\ step_num' = [step_num EXCEPT ![r] = @ + 1]
            /\ gen_log' = [gen_log EXCEPT ![r] = Append(@, messages[r])]
            /\ pc' = [pc EXCEPT ![r] = "generate"]
            /\ UNCHANGED <<run_result, exc>>
       ELSE /\ EndRun(r, task[r])
            /\ UNCHANGED <<step_num, gen_log>>
    /\ requests' = Append(requests, AdapterRequest("generate", r))
    /\ UNCHANGED <<tool_results, request_max_steps>>
    /\ UNCHANGED router_vars
    /\ UNCHANGED <<max_steps, tool_executor, current_task, messages, on_step,
                   reply_log, tool_log, cb_log, stopped_at>>

\* A slip: a step without an action is not reported.
ReportsOnlyActions(r, step) == on_step[r] = "set" /\ step.action # None

\* Line 165: is the step reported to the callback?
Reports(r, step) == on_step[r] = "set"

\* Lines 161-166 (and on, when there is no callback): generate returned.
GenerateReturn(r, response) ==
    /\ NoneInLoop
    /\ pc[r] = "generate"
    /\ reply_log' = [reply_log EXCEPT ![r] = Append(@, response)]
    /\ LET step == ParseResponse(response, step_num[r])
           t == [task[r] EXCEPT !.steps = Append(@, step)]
       IN  IF ParseRaises(response)
           THEN /\ Escape(r, task[r], "parse")
                /\ UNCHANGED <<messages, tool_log, cb_log>>
           ELSE IF Reports(r, step)
           THEN /\ task' = [task EXCEPT ![r] = t]
                /\ cb_log' = [cb_log EXCEPT ![r] =
                       Append(@, [step |-> step.step_number, calls |-> Len(gen_log[r]),
                                  outcome |-> "pending"])]
                /\ pc' = [pc EXCEPT ![r] = "on_step"]
                /\ UNCHANGED <<messages, tool_log, run_result, exc>>
           ELSE /\ HandleStep(r, t)
                /\ UNCHANGED cb_log
    /\ UNCHANGED <<router_vars, requests, tool_results, request_max_steps>>
    /\ UNCHANGED <<max_steps, tool_executor, current_task, step_num, on_step,
                   gen_log, stopped_at>>

\* Line 166: on_step returns normally or raises; nothing in run catches it.
OnStepReturn(r, raised) ==
    /\ NoneInLoop
    /\ pc[r] = "on_step"
    /\ cb_log' = [cb_log EXCEPT ![r][Len(cb_log[r])].outcome =
                      IF raised THEN "raised" ELSE "ok"]
    /\ IF raised
       THEN /\ Escape(r, task[r], "on_step")
            /\ UNCHANGED <<messages, tool_log>>
       ELSE HandleStep(r, task[r])
    /\ UNCHANGED <<router_vars, requests, tool_results, request_max_steps>>
    /\ UNCHANGED <<max_steps, tool_executor, current_task, step_num, on_step,
                   gen_log, reply_log, stopped_at>>

\* A slip: the except clause records the observation and leaves the state.
AfterToolKeepsState(t, k, raised) ==
    IF raised
    THEN [t EXCEPT !.steps[k].observation = ObsError(t.steps[k].action)]
    ELSE [t EXCEPT !.steps[k].observation = ObsResult]

\* Lines 180-184: what the try block leaves in the step and the task.
AfterTool(t, k, raised) ==
    IF raised
    THEN [t EXCEPT !.steps[k].observation = ObsError(t.steps[k].action),
                   !.state = "error"]
    ELSE [t EXCEPT !.steps[k].observation = ObsResult]

\* Lines 180-191: the tool executor returned or raised.
ToolReturn(r, raised) ==
    /\ NoneInLoop
    /\ pc[r] = "tool"
    /\ tool_log' = [tool_log EXCEPT ![r][Len(tool_log[r])].outcome =
                        IF raised THEN "raised" ELSE "ok"]
    /\ LET k == Len(task[r].steps)
           t == AfterTool(task[r], k, raised)
       IN  /\ EndIteration(r, t)
           /\ messages' = [messages EXCEPT ![r] =
                  WithCorrective(t.steps[k], Append(@, StepRecord(t.steps[k])))]
    /\ UNCHANGED <<router_vars, requests, tool_results, request_max_steps>>
    /\ UNCHANGED <<max_steps, tool_executor, current_task, step_num, on_step,
                   gen_log, reply_log, cb_log, stopped_at>>

(***************************************************************************)
(* Agent.stop and Agent.set_tool_executor.                                 *)
(***************************************************************************)
\* Lines 259-260
\* A slip: the state is set but the reason is not.
StopTaskNoReason(t) == [t EXCEPT !.state = "error"]

StopTask(t) == [t EXCEPT !.state = "error", !.error = CancelReason]

\* Lines 256-260
Stop ==
    /\ NoneInLoop
    /\ IF current_task # 0
       THEN /\ task' = [task EXCEPT ![current_task] = StopTask(@)]
            /\ stopped_at' =
                   IF Suspended(current_task) /\ stopped_at[current_task] = 0
                   THEN [stopped_at EXCEPT ![current_task] = Len(gen_log[current_task])]
                   ELSE stopped_at
       ELSE UNCHANGED <<task, stopped_at>>
    /\ UNCHANGED <<router_vars, requests, tool_results, request_max_steps>>
    /\ UNCHANGED <<max_steps, tool_executor, current_task, pc, messages, step_num,
                   on_step, run_result, exc, gen_log, reply_log, tool_log, cb_log>>

\* Lines 98-100
SetToolExecutor ==
    /\ NoneInLoop
    /\ tool_executor' = "set"
    /\ UNCHANGED <<router_vars, requests, tool_results, request_max_steps>>
    /\ UNCHANGED <<max_steps, current_task, task, pc, messages, step_num, on_step,
                   run_result, exc, gen_log, reply_log, tool_log, cb_log, stopped_at>>

(***************************************************************************)
(* One run of the agent, with stop() and set_tool_executor() from the host *)
(* at any suspension point.                                                *)
(***************************************************************************)
Next ==
    \/ \E cb \in {"none", "set"} : RunStart(1, cb)
    \/ Loop(1)
    \/ \E response \in Replies : GenerateReturn(1, response)
    \/ \E raised \in BOOLEAN : OnStepReturn(1, raised)
    \/ \E raised \in BOOLEAN : ToolReturn(1, raised)
    \/ Stop
    \/ SetToolExecutor

Spec == Init /\ [][Next]_vars

(***************************************************************************)
(* The same run, where the terminal action may also carry a null message.  *)
(***************************************************************************)
AnswerReplies == Replies \cup {ReplyAnswerNullMessage}

NextAnswers ==
    \/ \E cb \in {"none", "set"} : RunStart(1, cb)
    \/ Loop(1)
    \/ \E response \in AnswerReplies : GenerateReturn(1, response)
    \/ \E raised \in BOOLEAN : OnStepReturn(1, raised)
    \/ \E raised \in BOOLEAN : ToolReturn(1, raised)
    \/ Stop
    \/ SetToolExecutor

SpecAnswers == Init /\ [][NextAnswers]_vars

(***************************************************************************)
(* One run of an agent whose host has called set_tool_executor before the  *)
(* run starts, with stop() from the host.                                  *)
(***************************************************************************)
InitExecutor ==
    /\ max_steps \in 1..MaxBudget
    /\ tool_executor = "set"
    /\ current_task = 0
    /\ task = [r \in RunIds |-> DefaultTask]
    /\ pc = [r \in RunIds |-> "idle"]
    /\ messages = [r \in RunIds |-> <<>>]
    /\ step_num = [r \in RunIds |-> 0]
    /\ on_step = [r \in RunIds |-> "none"]
    /\ run_result = [r \in RunIds |-> DefaultTask]
    /\ exc = [r \in RunIds |-> "none"]
    /\ gen_log = [r \in RunIds |-> <<>>]
    /\ reply_log = [r \in RunIds |-> <<>>]
    /\ tool_log = [r \in RunIds |-> <<>>]
    /\ cb_log = [r \in RunIds |-> <<>>]
    /\ stopped_at = [r \in RunIds |-> 0]
    /\ requests = <<>>
    /\ tool_results = <<>>
    /\ request_max_steps = 0
    /\ settings = DefaultSettings
    /\ RouterConstructed

NextExecutor ==
    \/ \E cb \in {"none", "set"} : RunStart(1, cb)
    \/ Loop(1)
    \/ \E response \in Replies : GenerateReturn(1, response)
    \/ \E raised \in BOOLEAN : OnStepReturn(1, raised)
    \/ \E raised \in BOOLEAN : ToolReturn(1, raised)
    \/ Stop

SpecExecutor == InitExecutor /\ [][NextExecutor]_vars

(***************************************************************************)
(* The server after startup: one run of the agent, served by whichever     *)
(* adapter the router holds active when each call is made, while a mode    *)
(* request and another caller of the router come in.                       *)
(***************************************************************************)
MaxDirect == 1          \* router operations called from outside Agent.run

\* The sentinel an adapter returns when its flag is unset: llm_engine.py
\* line 51, gemini_engine.py line 53.  It is text without braces.
Sentinel(adapter) ==
    <<[t |-> "txt",
       k |-> IF adapter = "ollama" THEN "Ollama not available."
             ELSE "Gemini API Key missing or invalid.",
       v |-> None]>>

\* The request of run r that is in flight, and what its adapter returns
\* when the model would answer with response.
LastRequest(r) ==
    requests[Max({i \in DOMAIN requests : requests[i].run = r})]

AdapterGenerate(r, response) ==
    IF ~LastRequest(r).available THEN Sentinel(LastRequest(r).adapter)
    ELSE response

\* What an adapter does for each operation: generate_with_tools calls the
\* adapter's own generate (llm_engine.py line 95, gemini_engine.py line 162).
AdapterCalls(op) ==
    IF op = "generate_with_tools"
    THEN <<AdapterRequest(op, 0), AdapterRequest("generate", 0)>>
    ELSE <<AdapterRequest(op, 0)>>

RouterOps == {"generate", "generate_with_tools", "embeddings"}

\* LLMEngine.generate / generate_with_tools / embeddings called by a caller
\* other than Agent.run.
RouterOp(op) ==
    /\ NoneInLoop
    /\ Cardinality({i \in DOMAIN requests :
                       requests[i].run = 0 /\ requests[i].op \in RouterOps \ {"generate"}})
         + Cardinality({i \in DOMAIN requests :
                          requests[i].run = 0 /\ requests[i].op = "generate"
                          /\ (i = 1 \/ requests[i - 1].op # "generate_with_tools"
                                    \/ requests[i - 1].run # 0)})
           < MaxDirect
    /\ requests' = requests \o AdapterCalls(op)
    /\ UNCHANGED <<agent_vars, router_vars, tool_results, request_max_steps>>

\* lifespan (server.py lines 70-88): requests are served once the startup
\* initialize has returned.
Started ==
    /\ rcall.op # "none"
    /\ ~(rcall.op = "initialize" /\ rcall.at = "probe")

\* One mode request (POST /ai/mode) comes in after startup.
OneModeRequest == rcall.op = "initialize" /\ rcall.at = "returned"

ServedSettings ==
    [ai_mode : {"online", "offline"}, default_model : {Llama3b}, api_key : {TRUE}]
ServedOllama == {Down, [up |-> TRUE, models |-> {Llama3b}]}
ServedReplies == {ReplyClick, ReplyAnswer}

ServedInit ==
    /\ max_steps \in 1..MaxBudget
    /\ tool_executor = "set"
    /\ current_task = 0
    /\ task = [r \in RunIds |-> DefaultTask]
    /\ pc = [r \in RunIds |-> "idle"]
    /\ messages = [r \in RunIds |-> <<>>]
    /\ step_num = [r \in RunIds |-> 0]
    /\ on_step = [r \in RunIds |-> "none"]
    /\ run_result = [r \in RunIds |-> DefaultTask]
    /\ exc = [r \in RunIds |-> "none"]
    /\ gen_log = [r \in RunIds |-> <<>>]
    /\ reply_log = [r \in RunIds |-> <<>>]
    /\ tool_log = [r \in RunIds |-> <<>>]
    /\ cb_log = [r \in RunIds |-> <<>>]
    /\ stopped_at = [r \in RunIds |-> 0]
    /\ requests = <<>>
    /\ tool_results = <<>>
    /\ request_max_steps = 0
    /\ settings \in ServedSettings
    /\ RouterConstructed

NextServed ==
    \/ rcall.op = "none" /\ \E answer \in GeminiAnswers :
           InitializeCall("lifespan", answer)
    \/ \E answer \in ServedOllama : InitializeProbed(answer)
    \/ Started /\ RunStart(1, "none")
    \/ Loop(1)
    \/ \E response \in ServedReplies :
           pc[1] = "generate" /\ GenerateReturn(1, AdapterGenerate(1, response))
    \/ ToolReturn(1, FALSE)    \* a failing tool changes no request: see Spec
    \/ OneModeRequest /\ \E target \in KnownModes : \E answer \in GeminiAnswers :
           SwitchModeCall(target, answer)
    \/ \E answer \in ServedOllama : SwitchModeProbed(answer)
    \/ Started /\ \E op \in RouterOps : RouterOp(op)

SpecServed == ServedInit /\ [][NextServed]_vars

(***************************************************************************)
(* The server without any provider: no API key is configured and the       *)
(* Ollama daemon is down, so the startup initialize fails and every        *)
(* generate call of the run returns the adapter's sentinel.  No step has   *)
(* an action, so the tool executor is never awaited.                       *)
(***************************************************************************)
NoProviderSettings ==
    [ai_mode : {"online", "offline"}, default_model : {Llama3b}, api_key : {FALSE}]

NoProviderInit ==
    /\ AgentInit
    /\ settings \in NoProviderSettings
    /\ RouterConstructed

NextNoProvider ==
    \/ rcall.op = "none" /\ \E answer \in GeminiAnswers :
           InitializeCall("lifespan", answer)
    \/ InitializeProbed(Down)
    \/ Started /\ \E cb \in {"none", "set"} : RunStart(1, cb)
    \/ Loop(1)
    \/ \E response \in Replies :
           pc[1] = "generate" /\ GenerateReturn(1, AdapterGenerate(1, response))
    \/ \E raised \in BOOLEAN : OnStepReturn(1, raised)
    \/ Stop
    \/ SetToolExecutor

SpecNoProvider == NoProviderInit /\ [][NextNoProvider]_vars

(***************************************************************************)
(* Two runs on the same Agent (two /agent/execute requests, or two         *)
(* /ws/agent connections), interleaved at their provider and tool calls.   *)
(***************************************************************************)
TwoRunReplies == {ReplyClick, ReplyAnswer}

\* Run 1 names the request that arrives first.
NextTwoRuns ==
    \/ RunStart(1, "none")
    \/ pc[1] # "idle" /\ RunStart(2, "none")
    \/ \E r \in RunIds : Loop(r)
    \/ \E r \in RunIds : \E response \in TwoRunReplies : GenerateReturn(r, response)
    \/ \E r \in RunIds : \E raised \in BOOLEAN : ToolReturn(r, raised)

SpecTwoRuns == InitExecutor /\ [][NextTwoRuns]_vars

(***************************************************************************)
(* Two runs on the same Agent and stop() from the host at any suspension   *)
(* point; no tool executor is set.                                         *)
(***************************************************************************)
StopReplies == {ReplyProse, ReplyAnswer}

NextTwoRunsStop ==
    \/ RunStart(1, "none")
    \/ pc[1] # "idle" /\ RunStart(2, "none")
    \/ \E r \in RunIds : Loop(r)
    \/ \E r \in RunIds : \E response \in StopReplies : GenerateReturn(r, response)
    \/ Stop

SpecTwoRunsStop == Init /\ [][NextTwoRunsStop]_vars

(***************************************************************************)
(* POST /agent/execute (server.py lines 179-214): the request carries      *)
(* max_steps, the handler runs the module's Agent() singleton with its own *)
(* on_step, which appends to a list and does not raise.                    *)
(***************************************************************************)
DefaultMaxSteps == 10   \* agent.py line 93, the default Agent() is built with

ExecuteReplies == {ReplyProse, ReplyClick, ReplyAnswer}

ExecuteInit ==
    /\ max_steps = DefaultMaxSteps
    /\ tool_executor = "none"
    /\ current_task = 0
    /\ task = [r \in RunIds |-> DefaultTask]
    /\ pc = [r \in RunIds |-> "idle"]
    /\ messages = [r \in RunIds |-> <<>>]
    /\ step_num = [r \in RunIds |-> 0]
    /\ on_step = [r \in RunIds |-> "none"]
    /\ run_result = [r \in RunIds |-> DefaultTask]
    /\ exc = [r \in RunIds |-> "none"]
    /\ gen_log = [r \in RunIds |-> <<>>]
    /\ reply_log = [r \in RunIds |-> <<>>]
    /\ tool_log = [r \in RunIds |-> <<>>]
    /\ cb_log = [r \in RunIds |-> <<>>]
    /\ stopped_at = [r \in RunIds |-> 0]
    /\ requests = <<>>
    /\ tool_results = <<>>
    /\ request_max_steps \in 1..MaxBudget
    /\ settings = DefaultSettings
    /\ RouterConstructed

NextExecute ==
    \/ RunStart(1, "set")
    \/ Loop(1)
    \/ \E response \in ExecuteReplies : GenerateReturn(1, response)
    \/ OnStepReturn(1, FALSE)

SpecExecute == ExecuteInit /\ [][NextExecute]_vars

(***************************************************************************)
(* The parser on arbitrary reply text: the first reply of a run is any     *)
(* token sequence of at most MaxTextLen tokens, the later ones end the run.*)
(***************************************************************************)
ParserAlphabet ==
    {LBrace, RBrace, Prose, Member("thought", JStr("locate button")),
     Member("action", Click), Member("action_input", SelMap),
     Member("thought", JDeep)}

ParserTexts == UNION {[1..n -> ParserAlphabet] : n \in 0..MaxTextLen}

NextParser ==
    \/ RunStart(1, "none")
    \/ Loop(1)
    \/ /\ pc[1] = "generate"
       /\ Len(reply_log[1]) = 0
       /\ \E response \in ParserTexts : GenerateReturn(1, response)
    \/ Len(reply_log[1]) > 0 /\ GenerateReturn(1, ReplyAnswer)

SpecParser == Init /\ [][NextParser]_vars

(***************************************************************************)
(* generate_with_tools of the two adapters, called through the router      *)
(* after startup.  The result is {"type": "tool_call", ...} or             *)
(* {"type": "text", ...}; the bare except clause swallows whatever         *)
(* json.loads raises.                                                      *)
(***************************************************************************)
Contains(response, tok) == Positions(response, tok) # {}

ToolCall(tool, parameters, response) ==
    [type |-> "tool_call", tool |-> tool, parameters |-> parameters, text |-> response]
TextResult(response) ==
    [type |-> "text", tool |-> None, parameters |-> None, text |-> response]

\* A slip: a tool call is returned whenever the span parses.
GeminiExtractAnyObject(response_text) ==
    IF Contains(response_text, "{") /\ Contains(response_text, "}")
    THEN LET parsed == JsonLoads(Slice(response_text, Find(response_text, "{"),
                                       RFind(response_text, "}") + 1))
         IN  IF parsed.ok
             THEN ToolCall(DictGet(parsed.data, "tool", None),
                           DictGet(parsed.data, "parameters", EmptyMap), response_text)
             ELSE TextResult(response_text)
    ELSE TextResult(response_text)

\* llm_engine.py lines 96-105, on the text generate returned.
OllamaExtract(response) ==
    IF Contains(response, "{") /\ Contains(response, "}")
    THEN LET start == Find(response, "{")
             end == RFind(response, "}") + 1
             parsed == JsonLoads(Slice(response, start, end))
         IN  IF parsed.ok /\ "tool" \in DOMAIN parsed.data
             THEN ToolCall(parsed.data["tool"],
                           DictGet(parsed.data, "parameters", EmptyMap), response)
             ELSE TextResult(response)
    ELSE TextResult(response)

\* gemini_engine.py lines 164-181, on the text generate returned.
GeminiExtract(response_text) ==
    IF Contains(response_text, "{") /\ Contains(response_text, "}")
    THEN LET start == Find(response_text, "{")
             end == RFind(response_text, "}") + 1
             parsed == JsonLoads(Slice(response_text, start, end))
         IN  IF parsed.ok /\ "tool" \in DOMAIN parsed.data
             THEN ToolCall(parsed.data["tool"],
                           DictGet(parsed.data, "parameters", EmptyMap), response_text)
             ELSE TextResult(response_text)
    ELSE TextResult(response_text)

Pending == TextResult(<<>>)

\* LLMEngine.generate_with_tools (llm_engine.py lines 180-184) up to the
\* await of the adapter's generate.
ToolsCall ==
    /\ NoneInLoop
    /\ tool_results = <<>>
    /\ requests' = requests \o AdapterCalls("generate_with_tools")
    /\ tool_results' = <<[adapter |-> Delegate, at |-> "generate", reply |-> <<>>,
                          result |-> Pending]>>
    /\ UNCHANGED <<agent_vars, router_vars, request_max_steps>>

\* generate returns and the adapter extracts the tool call.
ToolsReturn(response) ==
    /\ NoneInLoop
    /\ tool_results # <<>>
    /\ tool_results[1].at = "generate"
    /\ LET reply == AdapterGenerate(0, response)
           adapter == tool_results[1].adapter
       IN  tool_results' =
               <<[adapter |-> adapter, at |-> "returned", reply |-> reply,
                  result |-> IF adapter = "ollama" THEN OllamaExtract(reply)
                             ELSE GeminiExtract(reply)]>>
    /\ UNCHANGED <<agent_vars, router_vars, requests, request_max_steps>>

ToolAlphabet ==
    {LBrace, RBrace, Prose, Member("tool", Click), Member("parameters", SelMap),
     Member("thought", JDeep)}

ToolTexts == UNION {[1..n -> ToolAlphabet] : n \in 0..MaxTextLen}

NextTools ==
    \/ rcall.op = "none" /\ \E answer \in GeminiAnswers :
           InitializeCall("lifespan", answer)
    \/ \E answer \in ServedOllama : InitializeProbed(answer)
    \/ Started /\ ToolsCall
    \/ /\ tool_results # <<>>
       /\ tool_results[1].at = "generate"
       /\ \E response \in ToolTexts : ToolsReturn(response)

SpecTools == ServedInit /\ [][NextTools]_vars

(***************************************************************************)
(* The loop on a first reply that holds two top-level JSON objects, with   *)
(* or without prose around and between them.                               *)
(***************************************************************************)
ObjClick == <<LBrace, Member("action", Click), RBrace>>
ObjAnswer ==
    <<LBrace, Member("action", AnswerUser), Member("action_input", MsgMap), RBrace>>
ObjEmpty == <<LBrace, RBrace>>
ObjDeep == <<LBrace, Member("thought", JDeep), RBrace>>

Objects == {ObjClick, ObjAnswer, ObjEmpty, ObjDeep}
Filler == {<<>>, <<Prose>>}

TwoObjectTexts ==
    {pre \o a \o sep \o b \o post :
        pre \in Filler, a \in Objects, sep \in Filler, b \in Objects, post \in Filler}

NextTwoObjects ==
    \/ \E cb \in {"none", "set"} : RunStart(1, cb)
    \/ Loop(1)
    \/ /\ pc[1] = "generate"
       /\ Len(reply_log[1]) = 0
       /\ \E response \in TwoObjectTexts : GenerateReturn(1, response)
    \/ Len(reply_log[1]) > 0 /\ GenerateReturn(1, ReplyAnswer)
    \/ \E raised \in BOOLEAN : OnStepReturn(1, raised)

SpecTwoObjects == Init /\ [][NextTwoObjects]_vars

(***************************************************************************)
(* Claims about Agent.run, checked under Spec for run 1.                   *)
(***************************************************************************)
Steps(r) == task[r].steps
Range(seq) == {seq[i] : i \in DOMAIN seq}
ChoseTerminal(r) == \E k \in DOMAIN Steps(r) : Steps(r)[k].action = AnswerUser

\* Step k of run r has been dealt with: the coroutine is past on_step(step k).
Handled(r, k) == k < Len(Steps(r)) \/ (k = Len(Steps(r)) /\ pc[r] # "on_step")

\* C1: for every budget N >= 1, every sequence of replies and tool outcomes,
\* run issues at most N provider calls, then returns (it does not end by an
\* exception), and the returned Task is completed or error.
C1_ReturnsWithinBudget ==
    /\ Len(gen_log[1]) <= max_steps
    /\ Finished(1) =>
         /\ pc[1] = "returned"
         /\ run_result[1].state \in {"completed", "error"}

\* C2: if step k chooses answer_user, run returns a Task that is completed,
\* whose result is the message parameter and that has exactly k steps; no
\* provider call and no tool call happens after step k.
C2_TerminalActionCompletes ==
    \A k \in DOMAIN Steps(1) :
        Steps(1)[k].action = AnswerUser =>
            /\ k = Len(Steps(1))
            /\ Len(gen_log[1]) = k
            /\ \A i \in DOMAIN tool_log[1] : tool_log[1][i].step < k
            /\ Handled(1, k) =>
                 /\ pc[1] = "returned"
                 /\ run_result[1].state = "completed"
                 /\ Len(run_result[1].steps) = k
                 /\ "message" \in Steps(1)[k].action_input.keys =>
                        run_result[1].result = JStr(Steps(1)[k].action_input.s)

\* C3: if no step within the budget chooses the terminal action, run returns
\* a Task in state error with the max-steps reason, no result and exactly N
\* steps.
C3_BudgetExhausted ==
    (Finished(1) /\ ~ChoseTerminal(1)) =>
        /\ pc[1] = "returned"
        /\ run_result[1].state = "error"
        /\ run_result[1].error = MaxStepsReason
        /\ run_result[1].result = None
        /\ Len(run_result[1].steps) = max_steps

\* C4: a stop request made while run is in progress is observed at the next
\* checkpoint: no further step is started (no provider call is issued after
\* the request) and the returned Task is in state error with the
\* cancellation reason.
C4_StopObserved ==
    stopped_at[1] > 0 =>
        /\ Len(gen_log[1]) = stopped_at[1]
        /\ pc[1] = "returned" =>
             /\ run_result[1].state = "error"
             /\ run_result[1].error = CancelReason

\* C5: whatever the provider replies and the tool executor does, no
\* exception leaves run.
C5_NoExceptionEscapes == pc[1] # "raised"

\* C6: a tool executor that raises on step k is caught: the observation of
\* step k is the error string naming the action, the Task is in state error
\* when the loop body ends, and with k < N the provider call of step k+1 is
\* issued with a prompt that holds the record of step k with that observation.
C6_ToolFailureCaught ==
    \A i \in DOMAIN tool_log[1] :
        tool_log[1][i].outcome = "raised" =>
            LET k == tool_log[1][i].step
                atBodyEnd == pc[1] = "loop" /\ step_num[1] = k
            IN  /\ ~(pc[1] = "raised" /\ Len(Steps(1)) = k)
                /\ Steps(1)[k].observation.kind = "error"
                /\ Steps(1)[k].observation.action = tool_log[1][i].action
                /\ atBodyEnd => task[1].state = "error"
                /\ (k < max_steps /\ ~atBodyEnd) =>
                     /\ Len(gen_log[1]) > k
                     /\ StepRecord(Steps(1)[k]) \in Range(gen_log[1][k + 1])

C6_Witness ==
    \E i \in DOMAIN tool_log[1] :
        /\ tool_log[1][i].outcome = "raised"
        /\ tool_log[1][i].step < max_steps
        /\ Len(gen_log[1]) > tool_log[1][i].step

\* A reply that holds no JSON object: no span of it is one.
NoJsonObject(response) ==
    \A i \in 1..Len(response) : \A j \in i..Len(response) :
        ~IsObject(SubSeq(response, i, j))

Count(seq, x) == Cardinality({j \in DOMAIN seq : seq[j] = x})

\* C7: a reply with no JSON object gives a step with no action and the raw
\* reply as thought; the tool executor is not called for it, the corrective
\* entry is appended, the loop goes on to the next step (if any) and the
\* Task is not put in state error by it.
C7_MalformedReplyWastesStep ==
    \A k \in DOMAIN reply_log[1] :
        NoJsonObject(reply_log[1][k]) =>
            /\ Steps(1)[k].action = None
            /\ Steps(1)[k].thought.raw
            /\ Steps(1)[k].thought.text = reply_log[1][k]
            /\ \A i \in DOMAIN tool_log[1] : tool_log[1][i].step # k
            /\ Handled(1, k) =>
                 /\ ~(pc[1] = "raised" /\ Len(Steps(1)) = k)
                 /\ Count(messages[1], Corrective) >=
                        Cardinality({j \in 1..k : NoJsonObject(reply_log[1][j])})
                 /\ (pc[1] = "loop" /\ step_num[1] = k /\ stopped_at[1] = 0) =>
                        task[1].state = "thinking"
                 /\ (k < max_steps /\ ~(pc[1] = "loop" /\ step_num[1] = k)) =>
                        Len(gen_log[1]) > k

\* C8: a callback that raises on step k does not abort the loop: no
\* exception of the callback leaves run.
C8_CallbackFailureContained ==
    \A i \in DOMAIN cb_log[1] :
        cb_log[1][i].outcome = "raised" => exc[1] # "on_step"

\* C9: with a callback, it is called once per recorded step, in step order;
\* the call for step k is over before the provider call of step k+1 is
\* issued; the calls are as many as the steps of the returned Task.
C9_CallbackOncePerStep ==
    on_step[1] = "set" =>
        /\ Len(cb_log[1]) = Len(Steps(1))
        /\ \A i \in DOMAIN cb_log[1] :
             /\ cb_log[1][i].step = i
             /\ cb_log[1][i].calls = i
             /\ cb_log[1][i].outcome = "pending" => Len(gen_log[1]) = i
             /\ Len(gen_log[1]) > i => cb_log[1][i].outcome = "ok"
        /\ pc[1] = "returned" => Len(cb_log[1]) = Len(run_result[1].steps)

C9_Witness ==
    /\ on_step[1] = "set"
    /\ pc[1] = "returned"
    /\ Len(cb_log[1]) >= 2
    /\ \E k \in DOMAIN Steps(1) : Steps(1)[k].action = None

(***************************************************************************)
(* Claims about the engine router, checked under SpecRouter.               *)
(***************************************************************************)
\* C10: a switch_mode call that fails (the probe of the target adapter
\* fails, or the target is no known mode) returns false, and mode, active
\* adapter and model identifier are as they were before the call, also while
\* the call waits for the probe.
C10_FailedSwitchChangesNothing ==
    rcall.op = "switch_mode" =>
        /\ rcall.at = "probe" => RouterState = rcall.before
        /\ (rcall.at = "returned"
            /\ (rcall.probe = "failed" \/ rcall.arg \notin KnownModes)) =>
                /\ rcall.ret = FALSE
                /\ RouterState = rcall.before

C10_Witness ==
    /\ rcall.op = "switch_mode"
    /\ rcall.at = "returned"
    /\ rcall.arg = "offline"
    /\ rcall.probe = "failed"
    /\ mode = "online"
    /\ active_engine = "gemini"

\* The adapter a known mode names, and the model identifier that adapter
\* holds (gemini.model_name is fixed, ollama.model can fall back).
AdapterOf(m) == IF m = "online" THEN "gemini" ELSE "ollama"
ModelOf(m) == IF m = "online" THEN GeminiModelName ELSE ollama.model

\* C11: a switch_mode call whose target probe succeeds returns true, and
\* afterwards mode is the target, the active adapter is the target's and
\* the model identifier is that adapter's; switch_mode returns true if and
\* only if the target probe succeeded.
C11_SuccessfulSwitchTakesEffect ==
    (rcall.op = "switch_mode" /\ rcall.at = "returned") =>
        /\ rcall.ret <=> rcall.probe = "ok"
        /\ rcall.probe = "ok" =>
             /\ rcall.arg \in KnownModes
             /\ mode = rcall.arg
             /\ active_engine = AdapterOf(rcall.arg)
             /\ model = ModelOf(rcall.arg)

C11_Witness ==
    /\ rcall.op = "switch_mode"
    /\ rcall.at = "returned"
    /\ rcall.arg = "online"
    /\ rcall.ret
    /\ rcall.before[2] = "ollama"
    /\ rcall.before[3] = FallbackModel
    /\ model = GeminiModelName

\* switch_mode("offline") has returned and the call before it was
\* switch_mode("online"), with no other router call between the two.
RemoteThenLocal ==
    /\ rcall.op = "switch_mode"
    /\ rcall.arg = "offline"
    /\ rcall.at = "returned"
    /\ rcall.prev = <<"switch_mode", "online">>

\* C12 as stated: switch_mode("online") followed immediately by
\* switch_mode("offline") leaves the local adapter active and mode "offline".
C12_RemoteThenLocal ==
    RemoteThenLocal =>
        /\ active_engine = "ollama"
        /\ mode = "offline"

\* C12 amended: switch_mode("online") followed immediately by
\* switch_mode("offline") leaves the local adapter active and mode "offline"
\* when the local probe of the second call succeeds; when it fails, mode and
\* active adapter are as the first call left them.
C12_RemoteThenLocalIfProbed ==
    RemoteThenLocal =>
        /\ rcall.probe = "ok" =>
             /\ active_engine = "ollama"
             /\ mode = "offline"
        /\ rcall.probe = "failed" =>
             /\ active_engine = rcall.before[2]
             /\ mode = rcall.before[1]

C12_Witness ==
    /\ RemoteThenLocal
    /\ rcall.probe = "ok"
    /\ rcall.before[1] = "online"
    /\ rcall.before[2] = "gemini"
    /\ active_engine = "ollama"

\* The _model_available flag of the adapter that active_engine refers to.
ActiveAvailable ==
    IF active_engine = "ollama" THEN ollama.available ELSE gemini.available

\* C13: in every reachable state, after any sequence of initialize and
\* switch_mode calls with any probe outcomes, the availability the router
\* reports (LLMEngine._model_available, read by /health and /ai/model) equals
\* the availability flag of the active adapter.
C13_AvailabilityMirrorsActive ==
    rcall.at # "probe" => model_available = ActiveAvailable

\* C14: in every reachable state of the router, from construction on and
\* also while an initialize or switch_mode call is suspended at a probe,
\* exactly one adapter is active: active_engine is the local adapter or the
\* remote adapter, never neither.
C14_OneAdapterActive == active_engine \in {"ollama", "gemini"}

C14_Witness ==
    /\ rcall.op = "initialize"
    /\ rcall.at = "probe"
    /\ rcall.before[2] = "gemini"
    /\ active_engine = "ollama"

\* C15: when the configured mode is "online" and the Gemini probe fails,
\* initialize falls back: the mode is "offline" and the local adapter is
\* active whether or not its probe succeeds, and on return both the returned
\* boolean and the router's reported availability equal the outcome of the
\* local probe.
C15_InitializeFallsBack ==
    (rcall.op = "initialize" /\ rcall.remote = "failed") =>
        /\ mode = "offline"
        /\ active_engine = "ollama"
        /\ rcall.at = "returned" =>
             /\ rcall.probe \in {"ok", "failed"}
             /\ rcall.ret <=> rcall.probe = "ok"
             /\ model_available <=> rcall.probe = "ok"

C15_Witness ==
    /\ rcall.op = "initialize"
    /\ rcall.remote = "failed"
    /\ rcall.at = "returned"
    /\ rcall.probe = "failed"
    /\ rcall.before[2] = "gemini"
    /\ rcall.prev = <<"initialize", "lifespan">>

(***************************************************************************)
(* More claims about Agent.run and Agent.stop, checked under Spec.         *)
(***************************************************************************)

\* C16: stop() called while a Task is current sets that Task's state to
\* error and its error text to the cancellation reason, and touches nothing
\* else: a provider or tool call in flight stays in flight; stop() with no
\* current Task changes nothing.
C16_StopCancelsWithoutInterrupting ==
    [][Stop =>
        IF current_task # 0
        THEN /\ task'[current_task].state = "error"
             /\ task'[current_task].error = CancelReason
             /\ task'[current_task].steps = task[current_task].steps
             /\ task'[current_task].result = task[current_task].result
             /\ UNCHANGED <<pc, current_task, messages, step_num, gen_log,
                            reply_log, tool_log, cb_log, run_result, exc>>
        ELSE UNCHANGED <<task, pc, current_task, messages, step_num, gen_log,
                         reply_log, tool_log, cb_log, run_result, exc>>]_vars

C16_Witness ==
    /\ stopped_at[1] > 0
    /\ pc[1] = "tool"
    /\ tool_log[1][Len(tool_log[1])].outcome = "pending"
    /\ task[1].state = "error"
    /\ task[1].error = CancelReason

\* The edges the state machine of a Task lists.
Edges ==
    {<<"idle", "thinking">>, <<"thinking", "acting">>, <<"acting", "thinking">>,
     <<"thinking", "completed">>, <<"thinking", "error">>, <<"acting", "error">>}

\* C17: every change that run makes to the state of a Task (here one that
\* stop() has not touched) follows one of the listed edges; completed and
\* error have no outgoing edge, so once the state is completed or error no
\* later loop iteration changes it.
C17_StateFollowsEdges ==
    [][(task'[1].state # task[1].state /\ ~Stop /\ task[1].error = None) =>
           <<task[1].state, task'[1].state>> \in Edges]_vars

C19_StepImmutableOnceAppended ==
    [][\A k \in DOMAIN Steps(1) :
           /\ k \in DOMAIN task'[1].steps
           /\ task'[1].steps[k] = Steps(1)[k]]_vars

(***************************************************************************)
(* Claims about the tool executor, checked under SpecExecutor: the         *)
(* executor is set for the whole run.                                      *)
(***************************************************************************)
\* The invocations of the executor made for step k of run 1.
Calls(k) == {i \in DOMAIN tool_log[1] : tool_log[1][i].step = k}

\* The step names an action to execute: a name, and not the terminal one.
ChoseNonTerminal(step) ==
    /\ step.action \notin {None, AnswerUser}
    /\ step.action # JStr("")

\* C20: with a tool executor set, the executor is invoked exactly once for
\* each step that chose a non-terminal action, with that step's action name
\* and parameters (an empty mapping when they are absent), after that
\* step's provider call and before the next one; it is never invoked for
\* the terminal action or for a step with no action.
C20_ExecutorOncePerAction ==
    \A k \in DOMAIN Steps(1) :
        LET step == Steps(1)[k]
        IN  /\ Cardinality(Calls(k)) <= 1
            /\ \A i \in Calls(k) :
                 /\ tool_log[1][i].action = step.action
                 /\ tool_log[1][i].params =
                        IF step.action_input = None THEN EmptyMap
                        ELSE step.action_input
                 /\ tool_log[1][i].outcome = "pending" => Len(gen_log[1]) = k
                 /\ Len(gen_log[1]) > k => tool_log[1][i].outcome # "pending"
            /\ step.action \in {None, AnswerUser} => Calls(k) = {}
            /\ (ChoseNonTerminal(step) /\ Handled(1, k)) => Calls(k) # {}

(***************************************************************************)
(* Claims about a run without tool executor and about the transcript,      *)
(* checked under Spec.  tool_executor is only ever set, never cleared, so  *)
(* a state in which it is unset belongs to a run that never had one.       *)
(***************************************************************************)

\* The loop body of step k is over and the run has not ended in it.
PastBody(r, k) ==
    Handled(r, k) /\ ~(pc[r] = "loop" /\ step_num[r] = k)

\* C21: when no tool executor is set, a step that chooses a non-terminal
\* action is recorded with its action and parameters, its observation stays
\* unset, nothing is executed, the Task never enters the acting state, and
\* the loop continues to the next step.
C21_NoExecutorRecordsOnly ==
    tool_executor = "none" =>
        /\ tool_log[1] = <<>>
        /\ task[1].state # "acting"
        /\ \A k \in DOMAIN Steps(1) :
             ChoseNonTerminal(Steps(1)[k]) =>
                 /\ Steps(1)[k] = ParseResponse(reply_log[1][k], k)
                 /\ Steps(1)[k].observation = ObsNone
                 /\ (PastBody(1, k) /\ k < max_steps) => Len(gen_log[1]) > k

\* C22: after every step that chose a non-terminal action, a record of that
\* step (thought, action, parameters, observation) is appended to the
\* transcript before the prompt of the next step is composed: the prompt of
\* step k+1 contains the record of step k.
C22_RecordInNextPrompt ==
    \A k \in DOMAIN Steps(1) :
        (ChoseNonTerminal(Steps(1)[k]) /\ Len(gen_log[1]) > k) =>
            StepRecord(Steps(1)[k]) \in Range(gen_log[1][k + 1])

IsPrefix(a, b) == Len(a) <= Len(b) /\ SubSeq(b, 1, Len(a)) = a

\* C23: the transcript is append-only: its first entry is always the
\* original instruction, entries are never removed, reordered or rewritten,
\* and the prompt of each step is made of all entries present when it is
\* composed, in order; so the prompt of step k is a prefix of the prompt of
\* every later step and of the transcript.
C23_TranscriptAppendOnly ==
    /\ pc[1] # "idle" => (messages[1] # <<>> /\ messages[1][1] = UserTask)
    /\ pc[1] = "generate" => gen_log[1][Len(gen_log[1])] = messages[1]
    /\ \A k \in DOMAIN gen_log[1] :
         /\ gen_log[1][k] # <<>>
         /\ gen_log[1][k][1] = UserTask
         /\ IsPrefix(gen_log[1][k], messages[1])
         /\ \A j \in 1..k : IsPrefix(gen_log[1][j], gen_log[1][k])

C23_Witness ==
    /\ Len(gen_log[1]) = 3
    /\ Len(gen_log[1][1]) = 1
    /\ Len(gen_log[1][2]) = 2
    /\ Len(gen_log[1][3]) = 3
    /\ Corrective \in Range(gen_log[1][3])
    /\ \E e \in Range(gen_log[1][3]) : e.kind = "step"

(***************************************************************************)
(* More claims about the engine router, checked under SpecRouter.          *)
(***************************************************************************)

C25_ServedByActiveAdapter ==
    [][(requests' # requests \/ reply_log' # reply_log) =>
          /\ IsPrefix(requests, requests')
          /\ \A i \in (Len(requests) + 1)..Len(requests') :
                requests'[i].adapter = active_engine
          /\ UNCHANGED <<mode, active_engine, model_available, model>>]_vars

C25_Witness ==
    /\ \E i \in DOMAIN requests :
          /\ requests[i].op = "generate_with_tools"
          /\ requests[i].adapter = "gemini"
          /\ requests[i + 1] = [requests[i] EXCEPT !.op = "generate"]
    /\ \E i \in DOMAIN requests :
          requests[i].run = 1 /\ requests[i].adapter = "ollama"
    /\ pc[1] = "returned"

\* C26: no lock guards the router: once a switch_mode has completed with
\* success, also while the Task is running (between two of its provider
\* calls or while its tool call is in flight), the Task's next provider call
\* goes to the newly active adapter; the steps of one Task can so be served
\* by both adapters.
C26_NextCallGoesToNewAdapter ==
    [][(Len(gen_log'[1]) > Len(gen_log[1])
        /\ rcall.op = "switch_mode" /\ rcall.at = "returned" /\ rcall.ret) =>
          /\ requests'[Len(requests')].run = 1
          /\ requests'[Len(requests')].adapter = AdapterOf(rcall.arg)]_vars

\* A switch_mode away from the remote adapter has succeeded and the Task has
\* been served by both adapters, each of them available.
C26_Witness ==
    /\ rcall.op = "switch_mode"
    /\ rcall.at = "returned"
    /\ rcall.ret
    /\ rcall.before[2] = "gemini"
    /\ Len(gen_log[1]) >= 2
    /\ \E i, j \in DOMAIN requests :
          /\ i < j
          /\ requests[i].run = 1 /\ requests[i].adapter = "gemini"
          /\ requests[j].run = 1 /\ requests[j].adapter = "ollama"
          /\ requests[i].available /\ requests[j].available
    /\ Steps(1)[1].observation # ObsNone

\* The requests of run r, in order.
RequestsOf(r) == SelectSeq(requests, LAMBDA q : q.run = r)

\* C24: when the active adapter is unavailable for a whole run, each
\* generate call returns the adapter's sentinel instead of raising; every
\* step has no action and the sentinel as thought, the tool executor is
\* never called, all N steps are consumed, and the Task ends in error with
\* the max-steps reason.  Checked under SpecNoProvider.
C24_UnavailableRunExhaustsBudget ==
    (\A i \in DOMAIN RequestsOf(1) : ~RequestsOf(1)[i].available) =>
        /\ \A k \in DOMAIN Steps(1) :
             /\ reply_log[1][k] = Sentinel(RequestsOf(1)[k].adapter)
             /\ Steps(1)[k].action = None
             /\ Steps(1)[k].thought = RawThought(reply_log[1][k])
        /\ tool_log[1] = <<>>
        /\ Finished(1) =>
             /\ pc[1] = "returned"
             /\ Len(run_result[1].steps) = max_steps
             /\ run_result[1].state = "error"
             /\ run_result[1].error = MaxStepsReason

(***************************************************************************)
(* Claims about the Task after run has returned it, checked under Spec.    *)
(***************************************************************************)

\* C28: once run has returned a Task, no later operation on the Agent
\* changes that Task's state, steps, result or error: the Task stays as it
\* was returned.
C28_ReturnedTaskFrozen ==
    pc[1] = "returned" => task[1] = run_result[1]

(***************************************************************************)
(* Claims about concurrent runs, checked under SpecTwoRuns.                *)
(***************************************************************************)

\* The observation run r's own tool calls give step k.
OwnObservation(r, k, action) ==
    IF \E i \in DOMAIN tool_log[r] :
           tool_log[r][i].step = k /\ tool_log[r][i].outcome = "raised"
    THEN ObsError(action)
    ELSE IF \E i \in DOMAIN tool_log[r] :
                tool_log[r][i].step = k /\ tool_log[r][i].outcome = "ok"
    THEN ObsResult
    ELSE ObsNone

\* The steps run r's own replies give.
OwnSteps(r) ==
    [k \in DOMAIN reply_log[r] |->
        LET step == ParseResponse(reply_log[r][k], k)
        IN  [step EXCEPT !.observation = OwnObservation(r, k, step.action)]]

\* C27: two runs interleaved on the same Agent do not share Task state:
\* each returned Task holds exactly the steps made from its own replies (and
\* its own tool outcomes), and its state, result and error follow from its
\* own steps alone.
C27_RunsDoNotShareTask ==
    \A r \in RunIds :
        pc[r] = "returned" =>
            LET t == run_result[r]
                last == t.steps[Len(t.steps)]
            IN  /\ t.steps = OwnSteps(r)
                /\ t.steps # <<>>
                /\ IF last.action = AnswerUser
                   THEN /\ t.state = "completed"
                        /\ t.result = AnswerMessage(last.action_input)
                        /\ t.error = None
                   ELSE /\ t.state = "error"
                        /\ t.result = None
                        /\ t.error = MaxStepsReason
                        /\ Len(t.steps) = max_steps

\* Both runs have returned, run 2 started while run 1 was in progress, and
\* they ended differently.
C27_Witness ==
    /\ pc[1] = "returned"
    /\ pc[2] = "returned"
    /\ current_task = 2
    /\ run_result[1].state = "error"
    /\ run_result[2].state = "completed"
    /\ Len(run_result[1].steps) > Len(run_result[2].steps)
    /\ \E i, j \in DOMAIN requests :
          i < j /\ requests[i].run = 2 /\ requests[j].run = 1


(***************************************************************************)
(* Claims about the parser, checked under SpecParser.                      *)
(***************************************************************************)
Opens(text) == {i \in DOMAIN text : text[i].t = "{"}
Closes(text) == {i \in DOMAIN text : text[i].t = "}"}

\* The reply has a first opening brace before its last closing brace.
HasSpan(text) ==
    /\ Opens(text) # {}
    /\ Closes(text) # {}
    /\ Min(Opens(text)) < Max(Closes(text))

OuterSpan(text) == SubSeq(text, Min(Opens(text)), Max(Closes(text)))

\* The span is one JSON object: only members between its two braces.
WellFormedObject(span) == \A i \in 2..(Len(span) - 1) : span[i].t = "member"

\* The value the object gives a key, or the default when the key is missing.
FieldOr(span, key, default) ==
    LET at == {i \in DOMAIN span : span[i].t = "member" /\ span[i].k = key}
    IN  IF at = {} THEN default ELSE span[Max(at)].v

\* The step made from reply k reads the outer span when it is a JSON object
\* and is the raw text otherwise.
C30_StepReadsOuterSpan ==
    \A k \in DOMAIN Steps(1) :
        LET text == reply_log[1][k]
            step == Steps(1)[k]
        IN  IF HasSpan(text) /\ WellFormedObject(OuterSpan(text))
            THEN /\ step.thought = ParsedThought(FieldOr(OuterSpan(text), "thought", JStr("")))
                 /\ step.action = FieldOr(OuterSpan(text), "action", None)
                 /\ step.action_input = FieldOr(OuterSpan(text), "action_input", EmptyMap)
            ELSE /\ step.thought = RawThought(text)
                 /\ step.action = None

\* C30: the parser takes the span from the first opening brace to the last
\* closing brace; a well-formed JSON object gives the step its thought,
\* action and parameters (missing thought: empty text, missing action:
\* unset, missing parameters: empty mapping); no span, or a span that does
\* not parse, gives a step whose thought is the raw text and whose action is
\* unset; and the parser never raises, so every reply received has its step.
C30_ParserTotal ==
    /\ C30_StepReadsOuterSpan
    /\ \A r \in RunIds : exc[r] # "parse"
    /\ Len(Steps(1)) = Len(reply_log[1])

(***************************************************************************)
(* Claims about replies with two objects, checked under SpecTwoObjects.    *)
(***************************************************************************)

\* C31: for a reply that holds two independent top-level JSON objects the
\* parser takes the span from the first opening brace to the last closing
\* brace, so neither object's action is selected: the step has its action
\* unset and the whole raw text as its thought, and the loop appends the
\* corrective instruction.
C31_TwoObjectsGiveRawStep ==
    \A k \in DOMAIN reply_log[1] :
        reply_log[1][k] \in TwoObjectTexts =>
            /\ k \in DOMAIN Steps(1)
            /\ Steps(1)[k].action = None
            /\ Steps(1)[k].thought = RawThought(reply_log[1][k])
            /\ PastBody(1, k) => messages[1][Len(messages[1])] = Corrective

(***************************************************************************)
(* Claims about generate_with_tools, checked under SpecTools.              *)
(***************************************************************************)

\* The span parses: it is one object and json.loads can build its values.
Parses(span) ==
    /\ WellFormedObject(span)
    /\ \A i \in DOMAIN span : span[i].v # JDeep

\* C32: generate_with_tools, on either adapter, makes exactly one generate
\* call and extracts from the first opening brace to the last closing brace:
\* it returns a tool call (tool name, parameters defaulting to an empty
\* mapping) exactly when that span parses as a JSON object with a tool
\* field, and otherwise the whole reply as text; it never raises, and both
\* adapters return the same result for the same reply text.
C32_ToolExtraction ==
    \A c \in DOMAIN tool_results :
        LET call == tool_results[c]
            text == call.reply
            mine == {i \in DOMAIN requests : requests[i].run = 0}
        IN  /\ Cardinality({i \in mine : requests[i].op = "generate"}) = 1
            /\ \A i \in mine : requests[i].adapter = call.adapter
            /\ call.at = "returned" =>
                 /\ OllamaExtract(text) = GeminiExtract(text)
                 /\ IF HasSpan(text) /\ Parses(OuterSpan(text))
                       /\ \E i \in DOMAIN OuterSpan(text) : OuterSpan(text)[i].k = "tool"
                    THEN call.result =
                           [type |-> "tool_call",
                            tool |-> FieldOr(OuterSpan(text), "tool", None),
                            parameters |-> FieldOr(OuterSpan(text), "parameters", EmptyMap),
                            text |-> text]
                    ELSE call.result =
                           [type |-> "text", tool |-> None, parameters |-> None,
                            text |-> text]

\* Both adapters have answered: a tool call without parameters behind prose
\* on one, and a span that json.loads cannot build on the other.
C32_Witness ==
    \E c \in DOMAIN tool_results :
        /\ tool_results[c].at = "returned"
        /\ tool_results[c].adapter = "ollama"
        /\ tool_results[c].reply = <<Prose, LBrace, Member("tool", Click), RBrace>>
        /\ tool_results[c].result.type = "tool_call"
        /\ tool_results[c].result.parameters = EmptyMap

(***************************************************************************)
(* Further claims about the engine router, checked under SpecRouter.       *)
(***************************************************************************)

\* C33: in every reachable router state, after any sequence of construction,
\* initialize, switch_mode and mode requests (also requests that name an
\* unknown mode), the mode is one of the two known modes and names the
\* active adapter: "offline" exactly when the local adapter is active,
\* "online" exactly when the remote adapter is active.
C33_ModeNamesActiveAdapter ==
    /\ mode \in KnownModes
    /\ mode = "offline" <=> active_engine = "ollama"
    /\ mode = "online" <=> active_engine = "gemini"

\* What the last run of GeminiEngine.initialize inside the router call
\* returned.
RemoteOutcome == IF rcall.op = "switch_mode" THEN rcall.probe ELSE rcall.remote

\* C34: after any call of an adapter's initialize, the adapter's
\* availability flag equals the boolean the call returned; a probe that
\* fails after an earlier successful one leaves the adapter unavailable.
C34_FlagEqualsLastProbe ==
    /\ ("ollama" \in rcall.probed /\ rcall.at = "returned") =>
           (ollama.available <=> rcall.probe = "ok")
    /\ "gemini" \in rcall.probed =>
           (gemini.available <=> RemoteOutcome = "ok")

(***************************************************************************)
(* Claims about the returned Task, checked under SpecAnswers.              *)
(***************************************************************************)
LastStep(t) == t.steps[Len(t.steps)]

\* C35: the Task run returns is completed if and only if its last recorded
\* step chose the terminal action (a tool failure on an earlier step does
\* not prevent it), and every Task returned as completed has a result set.
C35_CompletedIffTerminalLast ==
    pc[1] = "returned" =>
        /\ run_result[1].state = "completed" <=>
               (run_result[1].steps # <<>>
                /\ LastStep(run_result[1]).action = AnswerUser)
        /\ run_result[1].state = "completed" => run_result[1].result # None

(***************************************************************************)
(* Claims about stop() and the returned Task, checked under Spec.          *)
(***************************************************************************)

\* C36: under any interleaving of stop() with a running run, a Task returned
\* as completed has no error text and a Task returned in state error has
\* its error text set: state and error text never disagree.
C36_StateAgreesWithError ==
    pc[1] = "returned" =>
        /\ run_result[1].state = "completed" => run_result[1].error = None
        /\ run_result[1].state = "error" => run_result[1].error # None

(***************************************************************************)
(* Claims about stop() with two runs, checked under SpecTwoRunsStop, where *)
(* run 2 is the run that started most recently.                            *)
(***************************************************************************)

\* The step is a call of stop(): no coroutine moves.
StopStep ==
    /\ pc' = pc
    /\ gen_log' = gen_log
    /\ reply_log' = reply_log

\* C37: when two runs are in progress on the same Agent, stop() acts only
\* on the Task of the run that started most recently; the Task of the
\* earlier run is not touched and cannot be cancelled through stop().
C37_StopActsOnLatestRun ==
    [][(StopStep /\ Running(1) /\ Running(2)) =>
          /\ task'[2] = [task[2] EXCEPT !.state = "error", !.error = CancelReason]
          /\ task'[1] = task[1]
          /\ stopped_at'[1] = stopped_at[1]]_vars

C37_Witness ==
    /\ Running(1)
    /\ Running(2)
    /\ stopped_at[2] > 0
    /\ task[2].error = CancelReason
    /\ stopped_at[1] = 0
    /\ task[1].error = None
    /\ task[1].state = "thinking"

(***************************************************************************)
(* Claims about the local adapter, checked under SpecRouter.               *)
(***************************************************************************)

\* C38: whenever the local adapter's initialize returns true, the model it
\* will use for later requests is one of the models the backend listed as
\* installed: the configured model, or the fallback model.
C38_ModelIsInstalled ==
    ("ollama" \in rcall.probed /\ rcall.at = "returned" /\ rcall.probe = "ok") =>
        /\ ollama.model \in rcall.models
        /\ ollama.model \in {settings.default_model, FallbackModel}

(***************************************************************************)
(* Claims about /agent/execute, checked under SpecExecute.                 *)
(***************************************************************************)

\* C39: the number of steps taken for an agent-execute request never
\* exceeds the max_steps value the request carries.
C39_StepsWithinRequestBudget == Len(Steps(1)) <= request_max_steps

====
